---- MODULE Spec2Model ----
(***************************************************************************)
(* Model of tensorpack/models/conv2d.py: the layer constructors Conv2D and *)
(* Conv2DTranspose (alias Deconv2D) and the custom variable getter         *)
(* float32_variable_storage_getter.                                        *)
(*                                                                         *)
(* One behaviour is one call.  Init draws the environment (framework       *)
(* version, whether the build supports native grouped convolution, the    *)
(* variables that already exist) and the call's arguments; the actions are *)
(* the consecutive blocks of the called function.  Tensors are symbolic:   *)
(* a tensor is a record naming the primitive that produced it, its         *)
(* operands, and per output channel the filter and the input channels it  *)
(* was computed from.                                                      *)
(*                                                                         *)
(* Python's None is <<>> for optional numbers (a known number n is <<n>>), *)
(* "None" for optional callables.  An int-or-pair argument (kernel_size,   *)
(* strides, dilation_rate) is <<k>> for the int k and <<a, b>> for a pair. *)
(***************************************************************************)
EXTENDS Integers, Sequences, FiniteSets, TLC

VARIABLES
    ver,            \* get_tf_version_tuple(): <<major, minor>>
    groupSupport,   \* the build's tf.nn.conv2d accepts grouped filters
    fn,             \* the function called
    call,           \* the arguments the caller passed
    pc,             \* position in the called function
    store,          \* the framework's variables
    kinit,          \* local kernel_initializer
    dil,            \* local dilation_rate after shape2d
    conv,           \* local conv (NoTensor until assigned)
    convCalls,      \* the calls of tf.nn.conv2d issued so far, in order
    shapes,         \* Conv2DTranspose locals out_shape_dyn, out_shape3_sta, kernel_shape
    ret,            \* the returned value (NoReturn until the call returns)
    outcome         \* "running", "returned", or the exception that ended the call

vars == <<ver, groupSupport, fn, call, pc, store, kinit, dil, conv, convCalls,
          shapes, ret, outcome>>

----------------------------------------------------------------------------
(* Bounds of the model *)

MaxChannels == 4    \* channel counts range over 2 .. MaxChannels
MaxSplit == 2       \* split ranges over 1 .. MaxSplit
MaxStride == 2      \* strides and dilations range over 1 .. MaxStride
MaxSpatial == 3     \* the input is (MaxSpatial-1) x MaxSpatial at run time

----------------------------------------------------------------------------
(* Helpers of the repository that live outside conv2d.py *)

\* tfutils.common.get_tf_version_tuple
get_tf_version_tuple == ver

\* Python's ordering of two version tuples
TupleLE(a, b) == a[1] < b[1] \/ (a[1] = b[1] /\ a[2] <= b[2])
TupleGE(a, b) == TupleLE(b, a)

\* utils.argtools.shape2d: an int becomes [k, k], a pair becomes a list
shape2d(a) == IF Len(a) = 1 THEN <<a[1], a[1]>> ELSE a

\* utils.argtools.get_data_format(data_format, tfmode=False)
get_data_format(df) ==
    CASE df = "channels_last" -> "NHWC"
      [] df = "channels_first" -> "NCHW"
      [] OTHER -> df

\* utils.argtools.shape4d
shape4d(a, df) ==
    IF get_data_format(df) = "NHWC" THEN <<1>> \o shape2d(a) \o <<1>>
    ELSE <<1, 1>> \o shape2d(a)

\* models.common.VariableHolder(W=...) and the later assignment of .b
VariableHolder(w) == [W |-> w]
HolderWithB(h, b) == [W |-> h.W, b |-> b]

\* str.upper() on the padding names
Upper(s) == CASE s = "same" -> "SAME" [] s = "valid" -> "VALID" [] OTHER -> s

----------------------------------------------------------------------------
(* The framework's primitives, as this file uses them *)

\* The variable tf.get_variable creates (dtype float32 unless asked otherwise)
Variable(name, shape, dtype, initializer, trainable) ==
    [name |-> name, shape |-> shape, dtype |-> dtype,
     initializer |-> initializer, trainable |-> trainable]

\* The input tensor: channel i carries input channel i
InputTensor(nchan) ==
    [op |-> "input", chans |-> [i \in 1..nchan |-> [filter |-> 0, deps |-> {i}]]]

\* The weight W as a kernel bank: cin input channels per filter, filters 1..cout
Kernel(w, cin, cout) == [var |-> w, cin |-> cin, outs |-> [j \in 1..cout |-> j]]

\* tf.split(seq, n, axis): n consecutive equal pieces
Chunk(s, n, i) == SubSeq(s, (i - 1) * (Len(s) \div n) + 1, i * (Len(s) \div n))
SplitChannels(t, n) == [i \in 1..n |-> [op |-> "split", chans |-> Chunk(t.chans, n, i)]]
SplitKernels(k, n) == [i \in 1..n |-> [var |-> k.var, cin |-> k.cin, outs |-> Chunk(k.outs, n, i)]]

\* tf.nn.conv2d(x, k, ...): every filter of k reads every channel of x
DepsOf(x) == UNION {x.chans[i].deps : i \in 1..Len(x.chans)}
Conv2dPrim(x, k) ==
    [op |-> "conv2d",
     chans |-> [j \in 1..Len(k.outs) |-> [filter |-> k.outs[j], deps |-> DepsOf(x)]]]

\* tf.nn.conv2d(x, k, ...) with k.cin a divisor of x's channels, on a build
\* that supports it: the framework's grouped convolution
Conv2dGrouped(x, k) ==
    LET g == Len(x.chans) \div k.cin
        per == Len(k.outs) \div g
    IN [op |-> "conv2d",
        chans |-> [j \in 1..Len(k.outs) |->
                     [filter |-> k.outs[j],
                      deps |-> DepsOf([chans |-> Chunk(x.chans, g, ((j - 1) \div per) + 1)])]]]

\* tf.concat(outputs, axis)
RECURSIVE Flatten(_)
Flatten(ss) == IF ss = <<>> THEN <<>> ELSE Head(ss).chans \o Flatten(Tail(ss))
Concat(ts) == [op |-> "concat", chans |-> Flatten(ts)]

\* Python's None where a tensor or a return value is expected
NoTensor == [op |-> "None"]
NoReturn == [tensor |-> NoTensor]
NoShapes == [set |-> FALSE]

\* tf.nn.bias_add, activation(ret), tf.identity(ret, name='output')
BiasAdd(x, b) == [op |-> "bias_add", input |-> x, bias |-> b, chans |-> x.chans]
Activation(f, x) == [op |-> f, input |-> x, chans |-> x.chans]
Identity(x, name) == [op |-> "identity", name |-> name, input |-> x, chans |-> x.chans]

----------------------------------------------------------------------------
(* Values the arguments are drawn from *)

\* Framework versions either side of each version test of the file (1.5, 1.12, 1.13)
Versions == {<<1, 4>>, <<1, 5>>, <<1, 12>>, <<1, 13>>, <<1, 14>>}
Channels == 2..MaxChannels
Pairs == {<<1, 1>>, <<MaxStride>>, <<1, MaxStride>>}
NoneInit == [kind |-> "None"]
CustomInit == [kind |-> "custom"]
BiasInit == [kind |-> "zeros_initializer"]
Regularizers == {<<"None", "None", "None">>, <<"l2", "None", "None">>,
                 <<"None", "l2", "None">>, <<"None", "None", "l2">>}
InitSeeds == {<<NoneInit, <<>>>>, <<NoneInit, <<7>>>>, <<CustomInit, <<>>>>}

\* A variable of an earlier layer, present before the call
PreStore == {Variable("conv0/W", <<3, 3, 3, 4>>, "float32", CustomInit, TRUE)}

\* The static shape of the input in the layout data_format names
Layout(df, b, h, w, c) ==
    IF get_data_format(df) = "NHWC" THEN <<b, h, w, c>> ELSE <<b, c, h, w>>

Arguments(in_shape, shape_dyn, filters, kernel_size, strides, padding, data_format, dilation_rate, activation, use_bias, ki, regs, split) ==
    [in_shape |-> in_shape, shape_dyn |-> shape_dyn, filters |-> filters,
     kernel_size |-> kernel_size, strides |-> strides, padding |-> padding,
     data_format |-> data_format, dilation_rate |-> dilation_rate,
     activation |-> activation, use_bias |-> use_bias,
     kernel_initializer |-> ki[1], seed |-> ki[2],
     bias_initializer |-> BiasInit,
     kernel_regularizer |-> regs[1], bias_regularizer |-> regs[2],
     activity_regularizer |-> regs[3], split |-> split]

Conv2DCalls ==
    {Arguments(Layout(df, <<>>, <<>>, <<>>, c), Layout(df, 2, MaxSpatial - 1, MaxSpatial, MaxChannels),
               f, <<3>>, <<1>>, p, df, d, a, ub, ki, regs, s) :
        df \in {"channels_last", "channels_first"},
        c \in {<<>>} \cup {<<n>> : n \in Channels},
        f \in Channels, p \in {<<>>, <<"valid">>}, d \in Pairs,
        a \in {"None", "relu"}, ub \in BOOLEAN, ki \in InitSeeds,
        regs \in Regularizers, s \in 1..MaxSplit}

----------------------------------------------------------------------------
(* Conv2D, lines 40-158 *)

\* The parameter defaults of the signature that the model lets a caller omit
DefaultPadding == "same"
padding == IF call.padding = <<>> THEN DefaultPadding ELSE call.padding[1]

\* lines 70-74 (and 196-200): the kernel initializer used when none is passed.
\* The first positional argument 2.0 is the scale (contrib calls it factor).
DefaultKernelInitializer_NoSeed(seed) ==
    IF TupleLE(get_tf_version_tuple, <<1, 12>>)
    THEN [kind |-> "contrib.variance_scaling_initializer", scale |-> 2, seed |-> <<>>]
    ELSE [kind |-> "keras.VarianceScaling", scale |-> 2,
          distribution |-> "untruncated_normal", seed |-> <<>>]
DefaultKernelInitializer(seed) ==
    IF TupleLE(get_tf_version_tuple, <<1, 12>>)
    THEN [kind |-> "contrib.variance_scaling_initializer", scale |-> 2, seed |-> seed]
    ELSE [kind |-> "keras.VarianceScaling", scale |-> 2,
          distribution |-> "untruncated_normal", seed |-> seed]

ChooseKernelInitializer ==
    IF call.kernel_initializer = NoneInit
    THEN DefaultKernelInitializer(call.seed)
    ELSE call.kernel_initializer

\* lines 70-75
Conv2D_Init ==
    /\ fn = "Conv2D" /\ pc = "start"
    /\ kinit' = ChooseKernelInitializer
    /\ dil' = shape2d(call.dilation_rate)
    /\ pc' = "dispatch"
    /\ UNCHANGED <<ver, groupSupport, fn, call, store, conv, convCalls, shapes, ret, outcome>>

\* line 77
UseLayerPath == call.split = 1 /\ dil = <<1, 1>>

\* line 79 (and 203): the names the framework layer's variables are created under
RenameMap == [kernel |-> "W", bias |-> "b"]
rename_get_variable(mapping, name) ==
    IF name \in DOMAIN mapping THEN mapping[name] ELSE name

\* tf.layers.Conv2D / tf.layers.Conv2DTranspose applied to the input: the layer
\* rejects an unknown channel count, creates 'kernel' and (with use_bias) 'bias'
\* through the renaming getter, and computes its output.
LayerChannelAxis(df) == IF get_data_format(df) = "NHWC" THEN 4 ELSE 2
LayerApply(kind, mapping) ==
    LET cin == call.in_shape[LayerChannelAxis(call.data_format)]
        ks == shape2d(call.kernel_size)
        kshape == IF cin = <<>> THEN <<>>
                  ELSE IF kind = "Conv2D" THEN ks \o <<cin[1], call.filters>>
                  ELSE ks \o <<call.filters, cin[1]>>
        kernel == Variable(rename_get_variable(mapping, "kernel"), kshape, "float32",
                           kinit, TRUE)
        bias == Variable(rename_get_variable(mapping, "bias"), <<call.filters>>, "float32",
                         call.bias_initializer, TRUE)
    IN [error |-> cin = <<>>,
        kernel |-> kernel, bias |-> bias,
        created |-> IF call.use_bias THEN {kernel, bias} ELSE {kernel},
        out |-> [op |-> "layers." \o kind, padding |-> padding,
                 activation |-> call.activation, use_bias |-> call.use_bias,
                 chans |-> <<>>]]

\* lines 98-100, 155-157 (and 220-222): ret.variables
Holder(w, b) ==
    IF call.use_bias THEN HolderWithB(VariableHolder(w), b) ELSE VariableHolder(w)

\* lines 77-100 and 158
Conv2D_Layer ==
    /\ fn = "Conv2D" /\ pc = "dispatch" /\ UseLayerPath
    /\ LET r == LayerApply("Conv2D", RenameMap)
       IN IF r.error
          THEN /\ outcome' = "ValueError: channel dimension undefined"
               /\ UNCHANGED <<store, ret>>
          ELSE /\ store' = store \cup r.created
               /\ ret' = [tensor |-> Identity(r.out, "output"),
                          variables |-> Holder(r.kernel, r.bias)]
               /\ outcome' = "returned"
    /\ pc' = "done"
    /\ UNCHANGED <<ver, groupSupport, fn, call, kinit, dil, conv, convCalls, shapes>>

\* lines 104-107
data_format == get_data_format(call.data_format)
channel_axis == IF data_format = "NHWC" THEN 3 ELSE 1
in_channel == call.in_shape[channel_axis + 1]     \* Python indexes from 0
out_channel == call.filters

\* lines 118-120.  in_channel / split is exact: line 109 has checked it.
kernel_shape == shape2d(call.kernel_size)
filter_shape == kernel_shape \o <<in_channel[1] \div call.split, out_channel>>
stride == shape4d(call.strides, data_format)

\* lines 122-124
ConvKwargs_NoDilations == [data_format |-> data_format]
ConvKwargs ==
    IF TupleGE(get_tf_version_tuple, <<1, 5>>)
    THEN [data_format |-> data_format, dilations |-> shape4d(dil, data_format)]
    ELSE [data_format |-> data_format]

\* lines 126-130
NewW == Variable("W", filter_shape, "float32", kinit, TRUE)
NewB == Variable("b", <<out_channel>>, "float32", call.bias_initializer, TRUE)
Conv2DVariables_AlwaysBias == {NewW, NewB}
Conv2DVariables == IF call.use_bias THEN {NewW, NewB} ELSE {NewW}

\* lines 108-116: the first assertion that fails, "ok" when none does
UnknownChannelMsg == "AssertionError: [Conv2D] Input cannot have unknown channel!"
InChannelSplitMsg == "AssertionError: in_channel % split == 0"
RegularizerMsg == "AssertionError: Not supported by group conv or dilated conv!"
OutChannelSplitMsg == "AssertionError: out_channel % split == 0"
DilationVersionMsg == "AssertionError: TF>=1.5 required for dilated conv."
Conv2DAsserts ==
    IF in_channel = <<>> THEN UnknownChannelMsg
    ELSE IF in_channel[1] % call.split # 0 THEN InChannelSplitMsg
    ELSE IF ~(call.kernel_regularizer = "None" /\ call.bias_regularizer = "None"
              /\ call.activity_regularizer = "None") THEN RegularizerMsg
    ELSE IF out_channel % call.split # 0 THEN OutChannelSplitMsg
    ELSE IF ~(dil = <<1, 1>> \/ TupleGE(get_tf_version_tuple, <<1, 5>>))
         THEN DilationVersionMsg
    ELSE "ok"

\* lines 102-116
Conv2D_Asserts_CreateFirst ==
    /\ fn = "Conv2D" /\ pc = "dispatch" /\ ~UseLayerPath
    /\ store' = IF in_channel = <<>> THEN store ELSE store \cup Conv2DVariables
    /\ IF Conv2DAsserts = "ok"
       THEN pc' = "create" /\ UNCHANGED outcome
       ELSE pc' = "done" /\ outcome' = Conv2DAsserts
    /\ UNCHANGED <<ver, groupSupport, fn, call, kinit, dil, conv, convCalls,
                   shapes, ret>>
Conv2D_Asserts ==
    /\ fn = "Conv2D" /\ pc = "dispatch" /\ ~UseLayerPath
    /\ IF Conv2DAsserts = "ok"
       THEN pc' = "create" /\ UNCHANGED outcome
       ELSE pc' = "done" /\ outcome' = Conv2DAsserts
    /\ UNCHANGED <<ver, groupSupport, fn, call, store, kinit, dil, conv, convCalls,
                   shapes, ret>>

\* lines 118-130
Conv2D_CreateVars ==
    /\ fn = "Conv2D" /\ pc = "create"
    /\ store' = store \cup Conv2DVariables
    /\ pc' = "conv"
    /\ UNCHANGED <<ver, groupSupport, fn, call, kinit, dil, conv, convCalls, shapes,
                   ret, outcome>>

\* One call of tf.nn.conv2d(x, k, stride, padding.upper(), **kwargs), as logged
ConvCall(x, k, raised) ==
    [nin |-> Len(x.chans), kcin |-> k.cin, nout |-> Len(k.outs), stride |-> stride,
     padding |-> Upper(padding), kwargs |-> ConvKwargs, raised |-> raised]

TheInput == InputTensor(in_channel[1])
TheKernel == Kernel(NewW, filter_shape[3], filter_shape[4])

\* line 136
TryNative_Always == TRUE
TryNative == TupleGE(get_tf_version_tuple, <<1, 13>>)

\* lines 132-142
Conv2D_Convolve ==
    /\ fn = "Conv2D" /\ pc = "conv"
    /\ IF call.split = 1
       THEN /\ conv' = Conv2dPrim(TheInput, TheKernel)
            /\ convCalls' = Append(convCalls, ConvCall(TheInput, TheKernel, FALSE))
            /\ pc' = "finish"
            /\ UNCHANGED outcome
       ELSE IF TryNative
            THEN IF groupSupport
                 THEN /\ conv' = Conv2dGrouped(TheInput, TheKernel)
                      /\ convCalls' = Append(convCalls, ConvCall(TheInput, TheKernel, FALSE))
                      /\ pc' = "fallback"
                      /\ UNCHANGED outcome
                 ELSE \* ValueError is caught, and line 140 calls log_once, a name
                      \* this file neither imports nor defines
                      /\ convCalls' = Append(convCalls, ConvCall(TheInput, TheKernel, TRUE))
                      /\ outcome' = "NameError: name 'log_once' is not defined"
                      /\ pc' = "done"
                      /\ UNCHANGED conv
            ELSE /\ pc' = "fallback"
                 /\ UNCHANGED <<conv, convCalls, outcome>>
    /\ UNCHANGED <<ver, groupSupport, fn, call, store, kinit, dil, shapes, ret>>

\* lines 144-148: the loop-based grouped convolution
RECURSIVE LoopCalls(_, _, _)
LoopCalls(xs, ks, i) ==
    IF i > Len(xs) \/ i > Len(ks) THEN <<>>
    ELSE <<ConvCall(xs[i], ks[i], FALSE)>> \o LoopCalls(xs, ks, i + 1)
ZipConv(xs, ks) ==
    [i \in 1..(IF Len(xs) < Len(ks) THEN Len(xs) ELSE Len(ks)) |-> Conv2dPrim(xs[i], ks[i])]
LoopGroupConv_Reversed(x, k, n) ==
    Concat(ZipConv(SplitChannels(x, n),
                   [i \in 1..n |-> SplitKernels(k, n)[n + 1 - i]]))
LoopGroupConv(x, k, n) == Concat(ZipConv(SplitChannels(x, n), SplitKernels(k, n)))

\* lines 143-148
Conv2D_Fallback ==
    /\ fn = "Conv2D" /\ pc = "fallback"
    /\ IF conv = NoTensor
       THEN /\ conv' = LoopGroupConv(TheInput, TheKernel, call.split)
            /\ convCalls' = convCalls \o LoopCalls(SplitChannels(TheInput, call.split),
                                                  SplitKernels(TheKernel, call.split), 1)
       ELSE UNCHANGED <<conv, convCalls>>
    /\ pc' = "finish"
    /\ UNCHANGED <<ver, groupSupport, fn, call, store, kinit, dil, shapes, ret, outcome>>

\* lines 150-153 (and 264-267)
Output(c, b) ==
    LET biased == IF call.use_bias THEN BiasAdd(c, b) ELSE c
        activated == IF call.activation # "None" THEN Activation(call.activation, biased)
                     ELSE biased
    IN Identity(activated, "output")

\* lines 150-158
Conv2D_Finish ==
    /\ fn = "Conv2D" /\ pc = "finish"
    /\ ret' = [tensor |-> Output(conv, NewB), variables |-> Holder(NewW, NewB)]
    /\ outcome' = "returned"
    /\ pc' = "done"
    /\ UNCHANGED <<ver, groupSupport, fn, call, store, kinit, dil, conv, convCalls, shapes>>

----------------------------------------------------------------------------
(* float32_variable_storage_getter, lines 16-30 *)

DTypes == {"float16", "float32", "float64", "int32"}

GetterCalls ==
    {[name |-> n, shape |-> sh, dtype |-> dt, initializer |-> BiasInit, trainable |-> tr] :
        n \in {"W", "b"}, sh \in {<<MaxChannels>>, <<3, 3, MaxChannels - 1, MaxChannels>>},
        dt \in DTypes, tr \in {<<>>, <<TRUE>>, <<FALSE>>}}

\* line 18: trainable=True
DefaultTrainable == TRUE
Trainable(c) == IF c.trainable = <<>> THEN DefaultTrainable ELSE c.trainable[1]

\* line 23
StorageDType_Requested(dtype, trainable) == dtype
StorageDType(dtype, trainable) == IF trainable THEN "float32" ELSE dtype

\* tf.cast(variable, dtype)
Cast(x, dtype) == [op |-> "cast", dtype |-> dtype, input |-> x]

\* lines 23-30 with getter the framework's own getter: the variable it creates
\* and the value handed back
float32_variable_storage_getter(name, shape, dtype, initializer, trainable) ==
    LET storage_dtype == StorageDType(dtype, trainable)
        created == Variable(name, shape, storage_dtype, initializer, trainable)
        variable == [op |-> "variable", dtype |-> storage_dtype, name |-> name]
    IN [created |-> created,
        value |-> IF trainable /\ dtype # "float32" THEN Cast(variable, dtype)
                  ELSE variable]

\* lines 16-19: getter and name have no default; a call that passes neither
\* positionally nor by keyword does not bind
GetterRequired == {"getter", "name"}
BindGetter(passed) ==
    IF GetterRequired \subseteq passed THEN "ok"
    ELSE "TypeError: float32_variable_storage_getter() missing required positional arguments"

\* lines 16-30, called by the framework as a custom getter
Getter_Call ==
    /\ fn = "float32_variable_storage_getter" /\ pc = "start"
    /\ LET r == float32_variable_storage_getter(call.name, call.shape, call.dtype,
                                                call.initializer, Trainable(call))
       IN /\ store' = store \cup {r.created}
          /\ ret' = [tensor |-> r.value]
    /\ outcome' = "returned"
    /\ pc' = "done"
    /\ UNCHANGED <<ver, groupSupport, fn, call, kinit, dil, conv, convCalls, shapes>>

----------------------------------------------------------------------------
(* Conv2DTranspose, lines 169-273, and its alias Deconv2D, line 276 *)

DeconvCalls ==
    {Arguments(Layout(df, <<>>, h, w, <<MaxChannels>>),
               Layout(df, 2, MaxSpatial - 1, MaxSpatial, MaxChannels),
               MaxChannels - 1, <<3>>, st, p, df, <<1, 1>>, a, ub, ki, regs, 1) :
        df \in {"channels_last", "channels_first"},
        h \in {<<>>, <<MaxSpatial - 1>>}, w \in {<<>>, <<MaxSpatial>>},
        st \in Pairs, p \in {<<>>, <<"valid">>},
        a \in {"None", "relu"}, ub \in BOOLEAN, ki \in InitSeeds,
        regs \in Regularizers}

\* line 276: Deconv2D = Conv2DTranspose
IsConv2DTranspose == fn \in {"Conv2DTranspose", "Deconv2D"}

\* lines 196-200
Deconv_Init ==
    /\ IsConv2DTranspose /\ pc = "start"
    /\ kinit' = ChooseKernelInitializer
    /\ pc' = "dispatch"
    /\ UNCHANGED <<ver, groupSupport, fn, call, store, dil, conv, convCalls, shapes,
                   ret, outcome>>

\* line 202
DeconvLayerPath == TupleLE(get_tf_version_tuple, <<1, 12>>)

\* lines 202-222 and 273
Deconv_Layer ==
    /\ IsConv2DTranspose /\ pc = "dispatch" /\ DeconvLayerPath
    /\ LET r == LayerApply("Conv2DTranspose", RenameMap)
       IN IF r.error
          THEN /\ outcome' = "ValueError: channel dimension undefined"
               /\ UNCHANGED <<store, ret>>
          ELSE /\ store' = store \cup r.created
               /\ ret' = [tensor |-> Identity(r.out, "output"),
                          variables |-> Holder(r.kernel, r.bias)]
               /\ outcome' = "returned"
    /\ pc' = "done"
    /\ UNCHANGED <<ver, groupSupport, fn, call, kinit, dil, conv, convCalls, shapes>>

\* lines 225-226
KerasBugMsg == "AssertionError: Unsupported arguments due to Keras bug in TensorFlow 1.13"
DeconvAsserts ==
    IF call.kernel_regularizer = "None" /\ call.bias_regularizer = "None"
       /\ call.activity_regularizer = "None"
    THEN "ok" ELSE KerasBugMsg

\* lines 223-226
Deconv_Assert ==
    /\ IsConv2DTranspose /\ pc = "dispatch" /\ ~DeconvLayerPath
    /\ IF DeconvAsserts = "ok"
       THEN pc' = "shapes" /\ UNCHANGED outcome
       ELSE pc' = "done" /\ outcome' = DeconvAsserts
    /\ UNCHANGED <<ver, groupSupport, fn, call, store, kinit, dil, conv, convCalls,
                   shapes, ret>>

\* inputs.shape[i] and shape_dyn[i], with Python's indices
StaticDim(i) == call.in_shape[i + 1]
DynDim(i) == call.shape_dyn[i + 1]
\* None if d is None else d * s
StaticTimes(d, s) == IF d = <<>> THEN <<>> ELSE <<d[1] * s>>

\* lines 227-251
DeconvShapes ==
    LET strides2d == shape2d(call.strides)
    IN IF data_format = "NCHW"
       THEN [set |-> TRUE,
             channels_in |-> StaticDim(1),
             out_shape_dyn |-> <<DynDim(0), call.filters,
                                 DynDim(2) * strides2d[1], DynDim(3) * strides2d[2]>>,
             out_shape3_sta |-> <<<<call.filters>>,
                                  StaticTimes(StaticDim(2), strides2d[1]),
                                  StaticTimes(StaticDim(3), strides2d[2])>>,
             kernel_shape |-> shape2d(call.kernel_size)]
       ELSE [set |-> TRUE,
             channels_in |-> StaticDim(3),
             out_shape_dyn |-> <<DynDim(0), DynDim(1) * strides2d[1],
                                 DynDim(2) * strides2d[2], call.filters>>,
             out_shape3_sta |-> <<StaticTimes(StaticDim(1), strides2d[1]),
                                  StaticTimes(StaticDim(2), strides2d[2]),
                                  <<call.filters>>>>,
             kernel_shape |-> shape2d(call.kernel_size)]

Deconv_Shapes ==
    /\ IsConv2DTranspose /\ pc = "shapes"
    /\ shapes' = DeconvShapes
    /\ pc' = "createW"
    /\ UNCHANGED <<ver, groupSupport, fn, call, store, kinit, dil, conv, convCalls,
                   ret, outcome>>

\* line 252: custom_getter=float32_variable_storage_getter(dtype=tf.float16) calls
\* the getter with the keyword dtype alone, before tf.get_variable('W', ...) on
\* line 253 runs.  The call does not bind, so lines 253-273 are never reached
\* on this path.
GetterKeywordsPassed == {"dtype"}
Deconv_CreateW ==
    /\ IsConv2DTranspose /\ pc = "createW"
    /\ BindGetter(GetterKeywordsPassed) # "ok"
    /\ outcome' = BindGetter(GetterKeywordsPassed)
    /\ pc' = "done"
    /\ UNCHANGED <<ver, groupSupport, fn, call, store, kinit, dil, conv, convCalls,
                   shapes, ret>>

----------------------------------------------------------------------------
(* One call per behaviour *)

Init ==
    /\ ver \in Versions
    /\ fn \in {"Conv2D", "Conv2DTranspose", "Deconv2D", "float32_variable_storage_getter"}
    /\ groupSupport \in IF fn = "Conv2D" /\ TupleGE(ver, <<1, 13>>) THEN BOOLEAN ELSE {FALSE}
    /\ call \in CASE fn = "Conv2D" -> Conv2DCalls
                  [] fn \in {"Conv2DTranspose", "Deconv2D"} -> DeconvCalls
                  [] OTHER -> GetterCalls
    /\ pc = "start"
    /\ store = PreStore
    /\ kinit = NoneInit
    /\ dil = <<>>
    /\ conv = NoTensor
    /\ convCalls = <<>>
    /\ shapes = NoShapes
    /\ ret = NoReturn
    /\ outcome = "running"

Next ==
    \/ Conv2D_Init
    \/ Conv2D_Layer
    \/ Conv2D_Asserts
    \/ Conv2D_CreateVars
    \/ Conv2D_Convolve
    \/ Conv2D_Fallback
    \/ Conv2D_Finish
    \/ Deconv_Init
    \/ Deconv_Layer
    \/ Deconv_Assert
    \/ Deconv_Shapes
    \/ Deconv_CreateW
    \/ Getter_Call

Spec == Init /\ [][Next]_vars

----------------------------------------------------------------------------
(* Properties *)

Created == store \ PreStore
CreatedNames == {v.name : v \in Created}
AssertionFailures == {UnknownChannelMsg, InChannelSplitMsg, RegularizerMsg,
                      OutChannelSplitMsg, DilationVersionMsg, KerasBugMsg}
NoRegularizers == /\ call.kernel_regularizer = "None"
                  /\ call.bias_regularizer = "None"
                  /\ call.activity_regularizer = "None"
\* the caller's dilation_rate as a pair, and whether it is [1, 1]
DilationPair == IF Len(call.dilation_rate) = 1
                THEN <<call.dilation_rate[1], call.dilation_rate[1]>>
                ELSE call.dilation_rate
Dilated == DilationPair # <<1, 1>>
VersionBelow(major, minor) == ver[1] < major \/ (ver[1] = major /\ ver[2] < minor)
OwnConv2DPath == fn = "Conv2D" /\ (call.split # 1 \/ Dilated)
\* the holder of a returned value names W always and b exactly with use_bias
HolderIsRight ==
    /\ "W" \in DOMAIN ret.variables
    /\ ret.variables.W \in Created /\ ret.variables.W.name = "W"
    /\ ("b" \in DOMAIN ret.variables) <=> call.use_bias
    /\ call.use_bias => (ret.variables.b \in Created /\ ret.variables.b.name = "b")

\* C1: every Conv2D call that returns, on either path, has created exactly one
\* variable named W, one named b if and only if use_bias, and no other; the
\* returned output's holder contains W always and b if and only if use_bias.
C1_Conv2DVariables ==
    (fn = "Conv2D" /\ outcome = "returned") =>
        /\ CreatedNames = (IF call.use_bias THEN {"W", "b"} ELSE {"W"})
        /\ Cardinality(Created) = Cardinality(CreatedNames)
        /\ HolderIsRight

C1_Witness ==
    /\ fn = "Conv2D" /\ outcome = "returned"
    /\ call.split = 2 /\ ~call.use_bias /\ CreatedNames = {"W"}

\* C2: Conv2DTranspose (and Deconv2D) called with no regularizers completes on
\* every framework version and returns an output whose holder contains W, and b
\* if and only if use_bias.
C2_TransposeCompletes ==
    (IsConv2DTranspose /\ NoRegularizers /\ pc = "done") =>
        /\ outcome = "returned"
        /\ HolderIsRight

\* C3: a Conv2D call with dilation_rate != [1,1] on a framework version below
\* 1.5 ends in an assertion failure and never issues a convolution; on versions
\* >= 1.5 every convolution it issues is passed the dilation rate as 'dilations'.
C3_DilationVersion ==
    (fn = "Conv2D" /\ Dilated) =>
        /\ VersionBelow(1, 5) =>
              /\ convCalls = <<>>
              /\ ret = NoReturn
              /\ pc = "done" => outcome \in AssertionFailures
        /\ ~VersionBelow(1, 5) =>
              \A i \in 1..Len(convCalls) :
                  /\ "dilations" \in DOMAIN convCalls[i].kwargs
                  /\ convCalls[i].kwargs.dilations =
                        IF call.data_format = "channels_last"
                        THEN <<1, DilationPair[1], DilationPair[2], 1>>
                        ELSE <<1, 1, DilationPair[1], DilationPair[2]>>

C3_Witness ==
    /\ fn = "Conv2D" /\ Dilated /\ ver = <<1, 5>>
    /\ outcome = "returned" /\ Len(convCalls) = 1
    /\ convCalls[1].kwargs.dilations = <<1, 1, MaxStride, 1>>

\* C4 as stated: a Conv2D call with split > 1 on a framework version below the
\* minimum for grouped convolution (1.13, the version from which the native
\* grouped convolution is tried) ends in an assertion failure instead of
\* producing a result.
C4_GroupVersionAssert ==
    (fn = "Conv2D" /\ call.split > 1 /\ VersionBelow(1, 13) /\ pc = "done") =>
        outcome \in AssertionFailures

\* C4 amended: Conv2D has no minimum framework version for grouped convolution.
\* A call with split > 1 on a version below 1.13 whose preconditions hold
\* (channel count known, in_channel and filters divisible by split, no
\* regularizer, and version >= 1.5 when dilation_rate != [1,1]) returns a result
\* computed by the loop-based fallback, one convolution per group; its only
\* version assertion is the one for dilation, failing only for
\* dilation_rate != [1,1] below 1.5.
C4_GroupFallback ==
    (fn = "Conv2D" /\ call.split > 1 /\ VersionBelow(1, 13) /\ pc = "done") =>
        /\ outcome = DilationVersionMsg => (Dilated /\ VersionBelow(1, 5))
        /\ ( /\ in_channel # <<>> /\ NoRegularizers
             /\ in_channel[1] % call.split = 0 /\ call.filters % call.split = 0
             /\ (~Dilated \/ ~VersionBelow(1, 5)) ) =>
               /\ outcome = "returned"
               /\ conv.op = "concat"
               /\ Len(convCalls) = call.split

C4_Witness ==
    /\ fn = "Conv2D" /\ call.split = 2 /\ ver = <<1, 4>> /\ pc = "done"
    /\ outcome = "returned" /\ conv.op = "concat"

\* C5: in the loop-based grouped convolution with split = g > 1, W has shape
\* kernel + [in_channel/g, filters], group i of the input channels is convolved
\* only with group i of the filters, and the results are concatenated in group
\* order: the output has exactly `filters` channels, output channel j is filter
\* j, and it depends on exactly the input channels of its own group.
C5_LoopGroups ==
    (fn = "Conv2D" /\ call.split > 1 /\ conv.op = "concat") =>
        LET g == call.split
            cin == in_channel[1]
            f == call.filters
            GroupOf(j) == ((j - 1) \div (f \div g)) + 1
            InputGroup(i) == ((i - 1) * (cin \div g) + 1)..(i * (cin \div g))
        IN /\ cin % g = 0 /\ f % g = 0
           /\ \E w \in Created : w.name = "W" /\ w.shape = <<3, 3, cin \div g, f>>
           /\ Len(conv.chans) = f
           /\ \A j \in 1..f : /\ conv.chans[j].filter = j
                              /\ conv.chans[j].deps = InputGroup(GroupOf(j))
           /\ Len(convCalls) = g
           /\ \A i \in 1..g : /\ convCalls[i].nin = cin \div g
                              /\ convCalls[i].kcin = cin \div g
                              /\ convCalls[i].nout = f \div g

C5_Witness ==
    /\ fn = "Conv2D" /\ call.split = 2 /\ conv.op = "concat" /\ outcome = "returned"
    /\ in_channel = <<4>> /\ call.filters = 2
    /\ conv.chans[2].deps = {3, 4}

\* C6: in Conv2D and Conv2DTranspose the kernel initializer is, when the caller
\* passes None, variance scaling with scale 2.0 and the caller's seed (contrib's
\* for versions <= 1.12, Keras's otherwise), and otherwise the caller's own,
\* unchanged; W is created with it; an omitted padding is 'same'.
C6_Defaults ==
    (fn \in {"Conv2D", "Conv2DTranspose", "Deconv2D"} /\ pc # "start") =>
        /\ call.kernel_initializer = NoneInit =>
              /\ kinit.scale = 2
              /\ kinit.seed = call.seed
              /\ kinit.kind = (IF VersionBelow(1, 13)
                               THEN "contrib.variance_scaling_initializer"
                               ELSE "keras.VarianceScaling")
        /\ call.kernel_initializer # NoneInit => kinit = call.kernel_initializer
        /\ \A v \in Created : v.name = "W" =>
               v.initializer = (IF call.kernel_initializer = NoneInit THEN kinit
                                ELSE call.kernel_initializer)
        /\ call.padding = <<>> =>
              /\ \A i \in 1..Len(convCalls) : convCalls[i].padding = "SAME"
              /\ (outcome = "returned" /\ ret.tensor.input.op \in
                      {"layers.Conv2D", "layers.Conv2DTranspose"}) =>
                    ret.tensor.input.padding = "same"

C6_Witness ==
    /\ fn = "Conv2D" /\ outcome = "returned" /\ ver = <<1, 13>>
    /\ call.kernel_initializer = NoneInit /\ call.seed = <<7>> /\ call.padding = <<>>
    /\ Len(convCalls) = 1
    /\ \E v \in Created : v.name = "W" /\ v.initializer.seed = <<7>>

\* C7: float32_variable_storage_getter creates a trainable variable with dtype
\* float32 whatever dtype is requested and returns a value of the requested
\* dtype, cast exactly when that dtype is not float32; a non-trainable variable
\* is created with the requested dtype and returned without a cast.
C7_Float32Storage ==
    (fn = "float32_variable_storage_getter" /\ outcome = "returned") =>
        LET trainable == call.trainable # <<FALSE>>
        IN /\ Cardinality(Created) = 1
           /\ \A v \in Created :
                 /\ v.name = call.name
                 /\ v.dtype = (IF trainable THEN "float32" ELSE call.dtype)
           /\ ret.tensor.dtype = call.dtype
           /\ (ret.tensor.op = "cast") <=> (trainable /\ call.dtype # "float32")

C7_Witness ==
    /\ fn = "float32_variable_storage_getter" /\ outcome = "returned"
    /\ call.dtype = "float16" /\ call.trainable = <<>>
    /\ ret.tensor.op = "cast"
    /\ \E v \in Created : v.dtype = "float32"

\* the loop of lines 144-148 ran; a native attempt raised ValueError
LoopRan == conv.op = "concat"
NativeRaised == \E i \in 1..Len(convCalls) : convCalls[i].raised

\* C8: the framework-layer path is taken iff split == 1 and dilation_rate ==
\* [1,1]; with split == 1 and dilation the one native convolution is issued and
\* the loop never runs; with split > 1 the native grouped convolution is tried
\* only on versions >= 1.13 and the loop-based fallback runs iff the version is
\* below 1.13 or the native attempt raised ValueError; every completed call
\* feeds one convolution result to bias-add, activation and the 'output'
\* identity, in that order.
C8_PathSelection ==
    (fn = "Conv2D" /\ pc = "done" /\ outcome \notin AssertionFailures) =>
        /\ (outcome = "returned" /\ ret.tensor.input.op = "layers.Conv2D")
              <=> (call.split = 1 /\ ~Dilated /\ in_channel # <<>>)
        /\ (call.split = 1 /\ Dilated) => (Len(convCalls) = 1 /\ ~LoopRan)
        /\ (call.split > 1 /\ VersionBelow(1, 13)) =>
              \A i \in 1..Len(convCalls) : convCalls[i].nin # in_channel[1]
        /\ call.split > 1 => (LoopRan <=> (VersionBelow(1, 13) \/ NativeRaised))
        /\ (OwnConv2DPath /\ outcome = "returned") =>
              LET afterBias == IF call.activation = "None" THEN ret.tensor.input
                               ELSE ret.tensor.input.input
              IN /\ ret.tensor.op = "identity" /\ ret.tensor.name = "output"
                 /\ call.activation # "None" => ret.tensor.input.op = call.activation
                 /\ IF call.use_bias
                    THEN afterBias.op = "bias_add" /\ afterBias.input = conv
                    ELSE afterBias = conv

\* C9: a call that ends in one of the precondition assertion failures of
\* Conv2D's own implementation or of Conv2DTranspose's own implementation has
\* created no variable: the assertions are evaluated before W or b is created.
C9_FailuresCreateNothing ==
    /\ outcome \in AssertionFailures => store = PreStore
    /\ (OwnConv2DPath /\ pc = "dispatch") => store = PreStore
    /\ (IsConv2DTranspose /\ ~VersionBelow(1, 13) /\ pc = "dispatch") => store = PreStore

C9_Witness ==
    /\ fn = "Conv2D" /\ outcome = OutChannelSplitMsg
    /\ in_channel = <<4>> /\ call.filters = 3 /\ call.split = 2
    /\ store = PreStore

\* out_shape_dyn and out_shape3_sta as C10 states them
RequestedShapesAsClaimed ==
    LET nhwc == call.data_format = "channels_last"
        sh == call.strides[1]
        sw == IF Len(call.strides) = 1 THEN call.strides[1] ELSE call.strides[2]
        h == MaxSpatial - 1
        w == MaxSpatial
        hs == call.in_shape[IF nhwc THEN 2 ELSE 3]
        ws == call.in_shape[IF nhwc THEN 3 ELSE 4]
        Times(d, k) == IF d = <<>> THEN <<>> ELSE <<d[1] * k>>
    IN /\ shapes.out_shape_dyn = (IF nhwc THEN <<2, h * sh, w * sw, call.filters>>
                                  ELSE <<2, call.filters, h * sh, w * sw>>)
       /\ shapes.out_shape3_sta =
             (IF nhwc THEN <<Times(hs, sh), Times(ws, sw), <<call.filters>>>>
              ELSE <<<<call.filters>>, Times(hs, sh), Times(ws, sw)>>)

\* C10: on Conv2DTranspose's own path (version > 1.12) the requested output
\* shape is [batch, H*sh, W*sw, filters] (NHWC) or [batch, filters, H*sh, W*sw]
\* (NCHW); the static shape set on the result has filters on the channel axis and
\* on each spatial axis the input's static size times the stride, unknown
\* exactly when the input's is; W has shape kernel + [filters, input_channels].
C10_TransposeShapes ==
    (IsConv2DTranspose /\ ~VersionBelow(1, 13) /\ NoRegularizers /\ pc = "done") =>
        /\ RequestedShapesAsClaimed
        /\ outcome = "returned"
        /\ \E v \in Created :
              v.name = "W" /\ v.shape = <<3, 3, call.filters, MaxChannels>>

====
